---- MODULE Spec2Model ----
(***************************************************************************)
(* ADGM corporate agent: document classification, ADGM compliance rules,   *)
(* checklist verification and the process-level report.                    *)
(*                                                                         *)
(* Python str values are TLA+ strings, lists are sequences, dicts are      *)
(* records (a key the dict lacks is a field outside DOMAIN).  The state is *)
(* the most recent call on the processor / checklist module and the value  *)
(* it returned, the DocumentProcessor instance (processor, `self` inside   *)
(* its methods),                                                           *)
(* the globals of checklist.py (checklist_module), and first_check, a      *)
(* history variable holding the arguments and the result of the first      *)
(* check_adgm_compliance call of a repeated-evaluation run.                *)
(***************************************************************************)
EXTENDS Integers, Sequences, FiniteSets, TLC

VARIABLES call, ret, processor, checklist_module, first_check, frame

vars == <<call, ret, processor, checklist_module, first_check, frame>>

---------------------------------------------------------------------------
(* Bounds of the explored inputs *)

MaxUploaded == 2

MaxParagraphs == 2

MaxDocuments == 2

MaxFiles == 2

---------------------------------------------------------------------------
(* str primitives: str.lower(), the `in` operator on str *)

UpperChars == "ABCDEFGHIJKLMNOPQRSTUVWXYZ"

LowerChars == "abcdefghijklmnopqrstuvwxyz"

CharAt(s, i) == SubSeq(s, i, i)

UpperSet == { CharAt(UpperChars, i) : i \in 1..26 }

LowerMap ==
  [ c \in UpperSet |->
      CharAt(LowerChars, CHOOSE i \in 1..26 : CharAt(UpperChars, i) = c) ]

LowerChar(c) == IF c \in UpperSet THEN LowerMap[c] ELSE c

\* F at the value of x.  TLC evaluates the names of a LET and the arguments
\* of an operator anew at each use; a bound variable is evaluated once.
Bind(x, F(_)) == CHOOSE r \in { F(v) : v \in {x} } : TRUE

\* the lowercase of the characters lo..hi of s, by halves
RECURSIVE LowerRange(_, _, _)
LowerRange(s, lo, hi) ==
  IF lo > hi THEN ""
  ELSE IF lo = hi THEN LowerChar(CharAt(s, lo))
  ELSE LowerRange(s, lo, (lo + hi) \div 2)
         \o LowerRange(s, (lo + hi) \div 2 + 1, hi)

Lower(s) == Bind(s, LAMBDA v : LowerRange(v, 1, Len(v)))

In(t, s) ==
  \E a \in {t}, b \in {s} :
    \E i \in 1..(Len(b) - Len(a) + 1) : SubSeq(b, i, i + Len(a) - 1) = a

RECURSIVE Join(_, _)
Join(sep, xs) ==
  IF Len(xs) = 0 THEN ""
  ELSE IF Len(xs) = 1 THEN xs[1]
  ELSE xs[1] \o sep \o Join(sep, Tail(xs))

---------------------------------------------------------------------------
(* checklist.py *)

ADGM_CHECKLISTS ==
  [ p \in {"Company Incorporation", "Licensing", "Employment", "Compliance",
           "Corporate Governance"} |->
    CASE p = "Company Incorporation" ->
           [ required_documents |->
               << "Articles of Association",
                  "Memorandum of Association",
                  "Board Resolution Template",
                  "Shareholder Resolution Template",
                  "UBO Declaration Form",
                  "Register of Members and Directors",
                  "Incorporation Application Form",
                  "Change of Registered Address Notice" >>,
             description |-> "Complete set of documents required for company formation in ADGM",
             priority |-> "High" ]
      [] p = "Licensing" ->
           [ required_documents |->
               << "Licensing Application Form",
                  "Business Plan Template",
                  "Financial Projections",
                  "Risk Assessment Document",
                  "Compliance Manual",
                  "Anti-Money Laundering Policy",
                  "Risk Management Policy" >>,
             description |-> "Documents needed for obtaining ADGM business license",
             priority |-> "High" ]
      [] p = "Employment" ->
           [ required_documents |->
               << "Standard Employment Contract Template",
                  "Confidentiality Agreement",
                  "Non-Compete Agreement",
                  "Employee Handbook",
                  "HR Policies and Procedures" >>,
             description |-> "Employment-related documents for ADGM companies",
             priority |-> "Medium" ]
      [] p = "Compliance" ->
           [ required_documents |->
               << "Compliance Manual",
                  "Risk Management Policy",
                  "Anti-Money Laundering Policy",
                  "Data Protection Policy",
                  "Annual Compliance Report Template" >>,
             description |-> "Ongoing compliance documentation requirements",
             priority |-> "High" ]
      [] p = "Corporate Governance" ->
           [ required_documents |->
               << "Board Charter",
                  "Corporate Governance Manual",
                  "Code of Conduct",
                  "Whistleblower Policy",
                  "Board Meeting Minutes Template" >>,
             description |-> "Corporate governance framework documents",
             priority |-> "Medium" ] ]

EmptyDict == [x \in {} |-> x]

\* mutant: an unknown process falls back to the first checklist
get_checklist_with_default(process_name) ==
  IF process_name \in DOMAIN checklist_module.ADGM_CHECKLISTS
  THEN checklist_module.ADGM_CHECKLISTS[process_name]
  ELSE checklist_module.ADGM_CHECKLISTS["Company Incorporation"]

get_checklist_for_process(process_name) ==
  IF process_name \in DOMAIN checklist_module.ADGM_CHECKLISTS
  THEN checklist_module.ADGM_CHECKLISTS[process_name]
  ELSE EmptyDict

\* mutant: the required name is not lowercased before the containment test
is_present_case_sensitive(req_doc, uploaded_doc_names) ==
  \E i \in DOMAIN uploaded_doc_names : In(req_doc, uploaded_doc_names[i])

\* mutant: equality in place of containment
is_present_exact(req_doc, uploaded_doc_names) ==
  \E req_lower \in {Lower(req_doc)} :
    \E i \in DOMAIN uploaded_doc_names : req_lower = uploaded_doc_names[i]

\* mutant: all() in place of any()
is_present_in_all(req_doc, uploaded_doc_names) ==
  \E req_lower \in {Lower(req_doc)} :
    \A i \in DOMAIN uploaded_doc_names : In(req_lower, uploaded_doc_names[i])

\* any(req_doc.lower() in uploaded for uploaded in uploaded_doc_names)
is_present(req_doc, uploaded_doc_names) ==
  \E req_lower \in {Lower(req_doc)} :
    \E i \in DOMAIN uploaded_doc_names : In(req_lower, uploaded_doc_names[i])

\* mutant: truncation to two decimals in place of round(..., 2)
completeness_percentage_truncated(present_count, required_count) ==
  (10000 * present_count) \div required_count

\* round((present / required) * 100, 2), in hundredths of a percent
completeness_percentage(present_count, required_count) ==
  (20000 * present_count + required_count) \div (2 * required_count)

\* lines 98-109: the result built from the two lists
checklist_record(process_name, required_docs, present_docs, missing_docs) ==
  [ process |-> process_name,
    required_count |-> Len(required_docs),
    uploaded_count |-> Len(present_docs),
    missing_count |-> Len(missing_docs),
    completeness_percentage |->
      completeness_percentage(Len(present_docs), Len(required_docs)),
    present_documents |-> present_docs,
    missing_documents |-> missing_docs,
    status |-> IF missing_docs = <<>> THEN "complete" ELSE "incomplete" ]

verify_checklist_completeness(uploaded_docs, process_name) ==
  LET checklist == get_checklist_for_process(process_name) IN
  IF DOMAIN checklist = {}
  THEN [ status |-> "error", message |-> "Unknown process: " \o process_name ]
  ELSE
    LET required_docs == checklist.required_documents IN
    Bind([i \in DOMAIN uploaded_docs |-> Lower(uploaded_docs[i])],
         LAMBDA uploaded_doc_names :
           LET present(d) == is_present(d, uploaded_doc_names)
               absent(d) == ~is_present(d, uploaded_doc_names)
           IN Bind(<<SelectSeq(required_docs, present), SelectSeq(required_docs, absent)>>,
                   LAMBDA docs :
                     checklist_record(process_name, required_docs, docs[1], docs[2])))

---------------------------------------------------------------------------
(* float arithmetic of the scores.  A double x that is a sum of 0.6, 0.4    *)
(* and 0.2 terms is the pair <<t, e>> with x = (t * 2^55 + e) / (10 * 2^55):*)
(* t is the exact number of tenths, e the accumulated rounding error.       *)

F_0_0 == <<0, 0>>

F_0_2 == <<2, 4>>

F_0_4 == <<4, 8>>

F_0_6 == <<6, -8>>

F_1_0 == <<10, 0>>

\* x >= b / 10 for a double b / 10 that is exact (0.5, 1, 2, 4)
FGeqExact(x, b) == x[1] > b \/ (x[1] = b /\ x[2] >= 0)

\* spacing of the doubles around x, in units of 2^-55
Ulp(x) ==
  IF FGeqExact(x, 40) THEN 32
  ELSE IF FGeqExact(x, 20) THEN 16
  ELSE IF FGeqExact(x, 10) THEN 8
  ELSE IF FGeqExact(x, 5) THEN 4
  ELSE IF x[1] >= 3 THEN 2
  ELSE 1

\* 2^55 modulo 20 * g
Pow55Mod(g) == IF g <= 2 THEN 8 ELSE IF g = 4 THEN 48 ELSE 128

\* x + y, rounded to the nearest double, ties to even
\* the exact sum <<t, e>> rounded to the nearest double, ties to even
FRound(t, e) ==
  LET g == Ulp(<<t, e>>)
      nm == ((t * Pow55Mod(g) + e) % (20 * g)) \div 10
      low == nm % g
      d == IF 2 * low < g THEN 0 - low
           ELSE IF 2 * low > g THEN g - low
           ELSE IF nm >= g THEN g - low ELSE 0 - low
  IN <<t, e + 10 * d>>

\* x + y
FAdd(x, y) == Bind(<<x, y>>, LAMBDA v : FRound(v[1][1] + v[2][1], v[1][2] + v[2][2]))

FGreater(x, y) ==
  \E a \in {x}, b \in {y} : a[1] > b[1] \/ (a[1] = b[1] /\ a[2] > b[2])

FMin(x, y) == Bind(<<x, y>>, LAMBDA v : IF FGreater(v[1], v[2]) THEN v[2] ELSE v[1])

---------------------------------------------------------------------------
(* re.search for the patterns of the detection table: a pattern is the      *)
(* sequence of its literal parts, consecutive parts separated by \s+        *)

IsSpace(c) == c \in {" ", "\t", "\n", "\r", "\f"}

RECURSIVE re_match_at(_, _, _)
re_match_at(pattern, s, i) ==
  LET w == Head(pattern)
      j == i + Len(w)
  IN /\ j - 1 <= Len(s)
     /\ SubSeq(s, i, j - 1) = w
     /\ \/ Len(pattern) = 1
        \/ \E k \in 1..(Len(s) - j + 1) :
             /\ \A n \in 0..(k - 1) : IsSpace(CharAt(s, j + n))
             /\ re_match_at(Tail(pattern), s, j + k)

re_search(pattern, s) ==
  \E p \in {pattern}, b \in {s} : \E i \in 1..Len(b) : re_match_at(p, b, i)

---------------------------------------------------------------------------
(* doc_processing.py: DocumentProcessor *)

None == "None"

\* self.document_patterns, in declaration order
document_patterns ==
  << [ doc_type |-> "Articles of Association",
       patterns |-> << <<"articles", "of", "association">>,
                       <<"aoa">>,
                       <<"company", "constitution">>,
                       <<"internal", "regulations">> >> ],
     [ doc_type |-> "Memorandum of Association",
       patterns |-> << <<"memorandum", "of", "association">>,
                       <<"moa">>,
                       <<"company", "objectives">>,
                       <<"business", "purpose">> >> ],
     [ doc_type |-> "UBO Declaration",
       patterns |-> << <<"ubo", "declaration">>,
                       <<"ultimate", "beneficial", "owner">>,
                       <<"beneficial", "ownership">>,
                       <<"ownership", "structure">> >> ],
     [ doc_type |-> "Board Resolution",
       patterns |-> << <<"board", "resolution">>,
                       <<"directors", "resolution">>,
                       <<"board", "decision">>,
                       <<"directors", "meeting">> >> ],
     [ doc_type |-> "Employment Contract",
       patterns |-> << <<"employment", "contract">>,
                       <<"employment", "agreement">>,
                       <<"staff", "contract">>,
                       <<"employee", "terms">> >> ],
     [ doc_type |-> "Compliance Manual",
       patterns |-> << <<"compliance", "manual">>,
                       <<"compliance", "policy">>,
                       <<"regulatory", "compliance">>,
                       <<"compliance", "framework">> >> ] >>

\* self.compliance_rules
compliance_rules ==
  [ jurisdiction |->
      [ required |-> <<"ADGM", "Abu Dhabi Global Market", "ADGM Courts">>,
        forbidden |-> <<"UAE Federal Courts", "Dubai Courts",
                        "Dubai International Financial Centre">>,
        severity |-> "High" ],
    governing_law |->
      [ required |-> <<"ADGM", "English Law", "Common Law">>,
        forbidden |-> <<"UAE Federal Law", "Dubai Law">>,
        severity |-> "High" ],
    signature_blocks |->
      [ required |-> <<"signature", "witness", "notary">>,
        severity |-> "Medium" ],
    document_structure |->
      [ required |-> <<"clause", "section", "article">>,
        severity |-> "Low" ] ]

\* DocumentProcessor(): the instance as __init__ leaves it
DocumentProcessor ==
  [ document_patterns |-> document_patterns,
    compliance_rules |-> compliance_rules ]

\* the inner loop over one type's patterns (lines 132-138)
RECURSIVE pattern_score(_, _, _, _)
pattern_score(patterns, content_lower, filename_lower, score) ==
  IF patterns = <<>> THEN score
  ELSE
    LET pattern == Head(patterns)
        s1 == IF re_search(pattern, content_lower) THEN FAdd(score, F_0_6) ELSE score
        s2 == IF re_search(pattern, filename_lower) THEN FAdd(s1, F_0_4) ELSE s1
    IN pattern_score(Tail(patterns), content_lower, filename_lower, s2)

\* the "Additional keyword scoring" of one type (lines 141-149)
keyword_bonus(doc_type, content_lower) ==
  IF doc_type = "Articles of Association"
  THEN In("clause", content_lower) /\ In("company", content_lower)
  ELSE IF doc_type = "Memorandum of Association"
  THEN In("object", content_lower) /\ In("purpose", content_lower)
  ELSE IF doc_type = "UBO Declaration"
  THEN In("ownership", content_lower) /\ In("percentage", content_lower)
  ELSE FALSE

type_score(entry, content_lower, filename_lower) ==
  LET score == pattern_score(entry.patterns, content_lower, filename_lower, F_0_0)
  IN IF keyword_bonus(entry.doc_type, content_lower) THEN FAdd(score, F_0_2) ELSE score

\* mutant: a later type replaces the best one also on an equal score (>= for >)
better_or_equal_of(doc_type, score, best) ==
  IF ~FGreater(best[2], score) THEN <<doc_type, score>> ELSE best

\* lines 151-153; best is <<best_match, best_score>>
better_of(doc_type, score, best) ==
  IF FGreater(score, best[2]) THEN <<doc_type, score>> ELSE best

\* the loop over the detection table (lines 128-153)
RECURSIVE best_of(_, _, _, _)
best_of(table, content_lower, filename_lower, best) ==
  IF table = <<>> THEN best
  ELSE
    best_of(Tail(table), content_lower, filename_lower,
            Bind(<<type_score(Head(table), content_lower, filename_lower), best>>,
                 LAMBDA v : better_of(Head(table).doc_type, v[1], v[2])))

category_of(best_match) ==
  IF best_match \in {"Articles of Association", "Memorandum of Association", "UBO Declaration"}
  THEN "Company Incorporation"
  ELSE IF best_match \in {"Employment Contract", "Confidentiality Agreement"}
  THEN "Employment"
  ELSE IF best_match \in {"Compliance Manual", "Risk Management Policy"}
  THEN "Compliance"
  ELSE "General Legal"

\* mutant: the score is returned as accumulated, without the cap of 1.0
detect_result_unclamped(best) ==
  << IF best[1] = None THEN "Unknown Document" ELSE best[1],
     category_of(best[1]),
     best[2] >>

\* line 165, best is <<best_match, best_score>>
detect_result(best) ==
  << IF best[1] = None THEN "Unknown Document" ELSE best[1],
     category_of(best[1]),
     FMin(best[2], F_1_0) >>

\* mutant: the detection table is walked from its last type to its first
detect_document_type_reversed(self, content, filename) ==
  Bind(<<Lower(content), Lower(filename)>>,
       LAMBDA lower :
         Bind(best_of([ i \in DOMAIN self.document_patterns |->
                          self.document_patterns[Len(self.document_patterns) + 1 - i] ],
                      lower[1], lower[2], <<None, F_0_0>>),
              detect_result))

detect_document_type(self, content, filename) ==
  Bind(<<Lower(content), Lower(filename)>>,
       LAMBDA lower :
         Bind(best_of(self.document_patterns, lower[1], lower[2], <<None, F_0_0>>),
              detect_result))

\* index of the first phrase, from index i on, whose lowercase occurs in
\* content; 0 if none
RECURSIVE first_from(_, _, _)
first_from(phrases, content, i) ==
  IF i > Len(phrases) THEN 0
  ELSE IF In(Lower(phrases[i]), content) THEN i
  ELSE first_from(phrases, content, i + 1)

first_in(phrases, content) == first_from(phrases, content, 1)

any_in(phrases, content) == \E i \in DOMAIN phrases : In(Lower(phrases[i]), content)

\* mutant: every required phrase must occur, not just one of them
check_jurisdiction_all_required(self, content) ==
  LET rule == self.compliance_rules.jurisdiction IN
  Bind(first_in(rule.forbidden, content), LAMBDA f :
     IF f # 0
     THEN << [ issue |-> "Incorrect jurisdiction: " \o rule.forbidden[f],
               severity |-> rule.severity,
               suggestion |-> "Update jurisdiction to ADGM Courts",
               regulation |-> "ADGM Companies Regulations 2020, Art. 6",
               section |-> "Jurisdiction" ] >>
     ELSE IF \E i \in DOMAIN rule.required : ~In(Lower(rule.required[i]), content)
     THEN << [ issue |-> "Missing ADGM jurisdiction clause",
               severity |-> rule.severity,
               suggestion |-> "Add jurisdiction clause specifying ADGM Courts",
               regulation |-> "ADGM Companies Regulations 2020, Art. 6",
               section |-> "Jurisdiction" ] >>
     ELSE <<>>)

\* mutant: the required phrases are tested before the forbidden ones
check_jurisdiction_required_first(self, content) ==
  LET rule == self.compliance_rules.jurisdiction IN
  Bind(first_in(rule.forbidden, content), LAMBDA f :
     IF any_in(rule.required, content) THEN <<>>
     ELSE IF f # 0
     THEN << [ issue |-> "Incorrect jurisdiction: " \o rule.forbidden[f],
               severity |-> rule.severity,
               suggestion |-> "Update jurisdiction to ADGM Courts",
               regulation |-> "ADGM Companies Regulations 2020, Art. 6",
               section |-> "Jurisdiction" ] >>
     ELSE << [ issue |-> "Missing ADGM jurisdiction clause",
               severity |-> rule.severity,
               suggestion |-> "Add jurisdiction clause specifying ADGM Courts",
               regulation |-> "ADGM Companies Regulations 2020, Art. 6",
               section |-> "Jurisdiction" ] >>)

check_jurisdiction_compliance(self, content) ==
  LET rule == self.compliance_rules.jurisdiction IN
  \* f is bound to first_in(rule.forbidden, content)
  Bind(first_in(rule.forbidden, content), LAMBDA f :
     IF f # 0
     THEN << [ issue |-> "Incorrect jurisdiction: " \o rule.forbidden[f],
               severity |-> rule.severity,
               suggestion |-> "Update jurisdiction to ADGM Courts",
               regulation |-> "ADGM Companies Regulations 2020, Art. 6",
               section |-> "Jurisdiction" ] >>
     ELSE IF ~any_in(rule.required, content)
     THEN << [ issue |-> "Missing ADGM jurisdiction clause",
               severity |-> rule.severity,
               suggestion |-> "Add jurisdiction clause specifying ADGM Courts",
               regulation |-> "ADGM Companies Regulations 2020, Art. 6",
               section |-> "Jurisdiction" ] >>
     ELSE <<>>)

\* mutant: a text without any required law phrase is reported as well
check_governing_law_required(self, content) ==
  LET rule == self.compliance_rules.governing_law IN
  Bind(first_in(rule.forbidden, content), LAMBDA f :
     IF f # 0
     THEN << [ issue |-> "Incorrect governing law: " \o rule.forbidden[f],
               severity |-> rule.severity,
               suggestion |-> "Update governing law to ADGM/English Law",
               regulation |-> "ADGM Companies Regulations 2020, Art. 7",
               section |-> "Governing Law" ] >>
     ELSE IF ~any_in(rule.required, content)
     THEN << [ issue |-> "Missing governing law clause",
               severity |-> rule.severity,
               suggestion |-> "Update governing law to ADGM/English Law",
               regulation |-> "ADGM Companies Regulations 2020, Art. 7",
               section |-> "Governing Law" ] >>
     ELSE <<>>)

check_governing_law_compliance(self, content) ==
  LET rule == self.compliance_rules.governing_law IN
  Bind(first_in(rule.forbidden, content), LAMBDA f :
     IF f # 0
     THEN << [ issue |-> "Incorrect governing law: " \o rule.forbidden[f],
               severity |-> rule.severity,
               suggestion |-> "Update governing law to ADGM/English Law",
               regulation |-> "ADGM Companies Regulations 2020, Art. 7",
               section |-> "Governing Law" ] >>
     ELSE <<>>)

\* mutant: empty content is not examined for a signature section
check_signature_compliance_nonempty(self, content) ==
  LET rule == self.compliance_rules.signature_blocks
  IN IF content # "" /\ ~any_in(rule.required, content)
     THEN << [ issue |-> "Missing signature section",
               severity |-> rule.severity,
               suggestion |-> "Add proper signature blocks with witness section",
               regulation |-> "ADGM Companies Regulations 2020, Art. 12",
               section |-> "Execution" ] >>
     ELSE <<>>

check_signature_compliance(self, content) ==
  LET rule == self.compliance_rules.signature_blocks
  IN IF ~any_in(rule.required, content)
     THEN << [ issue |-> "Missing signature section",
               severity |-> rule.severity,
               suggestion |-> "Add proper signature blocks with witness section",
               regulation |-> "ADGM Companies Regulations 2020, Art. 12",
               section |-> "Execution" ] >>
     ELSE <<>>

\* mutant: the structure check is skipped for an unclassified document
check_structure_compliance_typed(self, content, document_type) ==
  LET rule == self.compliance_rules.document_structure
  IN IF document_type # "Unknown Document" /\ ~any_in(rule.required, content)
     THEN << [ issue |-> "Poor document structure",
               severity |-> rule.severity,
               suggestion |-> "Organize document with proper clauses and sections",
               regulation |-> "ADGM Companies Regulations 2020, Art. 10",
               section |-> "Document Requirements" ] >>
     ELSE <<>>

check_structure_compliance(self, content, document_type) ==
  LET rule == self.compliance_rules.document_structure
  IN IF ~any_in(rule.required, content)
     THEN << [ issue |-> "Poor document structure",
               severity |-> rule.severity,
               suggestion |-> "Organize document with proper clauses and sections",
               regulation |-> "ADGM Companies Regulations 2020, Art. 10",
               section |-> "Document Requirements" ] >>
     ELSE <<>>

\* mutant: the issue is raised as soon as one keyword of the type is absent
check_document_specific_any_keyword(self, content, document_type) ==
  IF document_type = "Articles of Association"
  THEN IF ~In("share capital", content) /\ ~In("capital", content)
       THEN << [ issue |-> "Missing share capital information",
                 severity |-> "Medium",
                 suggestion |-> "Include share capital structure and classes",
                 regulation |-> "ADGM Companies Regulations 2020, Art. 15",
                 section |-> "Share Capital" ] >>
       ELSE <<>>
  ELSE IF document_type = "UBO Declaration"
  THEN IF ~In("percentage", content) \/ ~In("ownership", content)
       THEN << [ issue |-> "Missing ownership percentages",
                 severity |-> "High",
                 suggestion |-> "Include beneficial ownership percentages",
                 regulation |-> "ADGM Companies Regulations 2020, Art. 20",
                 section |-> "Beneficial Ownership" ] >>
       ELSE <<>>
  ELSE IF document_type = "Employment Contract"
  THEN IF ~In("termination", content) \/ ~In("notice", content)
       THEN << [ issue |-> "Missing termination clauses",
                 severity |-> "Medium",
                 suggestion |-> "Include termination and notice provisions",
                 regulation |-> "ADGM Employment Regulations",
                 section |-> "Employment Terms" ] >>
       ELSE <<>>
  ELSE <<>>

check_document_specific_compliance(self, content, document_type) ==
  IF document_type = "Articles of Association"
  THEN IF ~In("share capital", content) /\ ~In("capital", content)
       THEN << [ issue |-> "Missing share capital information",
                 severity |-> "Medium",
                 suggestion |-> "Include share capital structure and classes",
                 regulation |-> "ADGM Companies Regulations 2020, Art. 15",
                 section |-> "Share Capital" ] >>
       ELSE <<>>
  ELSE IF document_type = "UBO Declaration"
  THEN IF ~In("percentage", content) /\ ~In("ownership", content)
       THEN << [ issue |-> "Missing ownership percentages",
                 severity |-> "High",
                 suggestion |-> "Include beneficial ownership percentages",
                 regulation |-> "ADGM Companies Regulations 2020, Art. 20",
                 section |-> "Beneficial Ownership" ] >>
       ELSE <<>>
  ELSE IF document_type = "Employment Contract"
  THEN IF ~In("termination", content) /\ ~In("notice", content)
       THEN << [ issue |-> "Missing termination clauses",
                 severity |-> "Medium",
                 suggestion |-> "Include termination and notice provisions",
                 regulation |-> "ADGM Employment Regulations",
                 section |-> "Employment Terms" ] >>
       ELSE <<>>
  ELSE <<>>

\* mutant: the document-specific issues are collected first
check_adgm_compliance_specific_first(self, content, document_type) ==
  Bind(Lower(content), LAMBDA content_lower :
    check_document_specific_compliance(self, content_lower, document_type)
      \o check_jurisdiction_compliance(self, content_lower)
      \o check_governing_law_compliance(self, content_lower)
      \o check_signature_compliance(self, content_lower)
      \o check_structure_compliance(self, content_lower, document_type))

\* mutant: the structure check runs before the signature check
check_adgm_compliance_structure_first(self, content, document_type) ==
  Bind(Lower(content), LAMBDA content_lower :
    check_jurisdiction_compliance(self, content_lower)
      \o check_governing_law_compliance(self, content_lower)
      \o check_structure_compliance(self, content_lower, document_type)
      \o check_signature_compliance(self, content_lower)
      \o check_document_specific_compliance(self, content_lower, document_type))

\* each helper returns the empty list for None and a one-element list for an issue
check_adgm_compliance(self, content, document_type) ==
  Bind(Lower(content), LAMBDA content_lower :
    check_jurisdiction_compliance(self, content_lower)
      \o check_governing_law_compliance(self, content_lower)
      \o check_signature_compliance(self, content_lower)
      \o check_structure_compliance(self, content_lower, document_type)
      \o check_document_specific_compliance(self, content_lower, document_type))

\* doc.get("issues", [])
issues_of(doc) == IF "issues" \in DOMAIN doc THEN doc.issues ELSE <<>>

\* issue.get("severity") == "High"
is_high(issue) == "severity" \in DOMAIN issue /\ issue.severity = "High"

RECURSIVE count_issues(_)
count_issues(documents) ==
  IF documents = <<>> THEN 0
  ELSE Len(issues_of(Head(documents))) + count_issues(Tail(documents))

RECURSIVE count_high(_)
count_high(documents) ==
  IF documents = <<>> THEN 0
  ELSE Len(SelectSeq(issues_of(Head(documents)), is_high)) + count_high(Tail(documents))

\* the "<filename>: <issue text>" lines of all High issues, document order then issue order
RECURSIVE high_issue_lines(_)
high_issue_lines(documents) ==
  IF documents = <<>> THEN <<>>
  ELSE
    LET doc == Head(documents)
        high == SelectSeq(issues_of(doc), is_high)
    IN [ k \in 1..Len(high) |-> doc.filename \o ": " \o high[k].issue ]
         \o high_issue_lines(Tail(documents))

\* the KeyError _generate_recommendations raises, None if it returns
generate_recommendations_error(documents, checklist_result) ==
  IF "missing_documents" \notin DOMAIN checklist_result THEN "'missing_documents'"
  ELSE IF \E i \in DOMAIN documents :
            \E k \in DOMAIN issues_of(documents[i]) :
              /\ is_high(issues_of(documents[i])[k])
              /\ "issue" \notin DOMAIN issues_of(documents[i])[k]
  THEN "'issue'"
  ELSE IF "completeness_percentage" \notin DOMAIN checklist_result
  THEN "'completeness_percentage'"
  ELSE None

\* mutant: the affirmative line is appended whenever no High issue exists
generate_recommendations_affirmative_without_high(documents, checklist_result) ==
  LET missing ==
        IF checklist_result.missing_documents # <<>>
        THEN << "Upload missing documents: "
                  \o Join(", ", checklist_result.missing_documents) >>
        ELSE <<>>
      high_issues == high_issue_lines(documents)
      high ==
        IF high_issues # <<>>
        THEN << "Address high severity issues immediately" >>
               \o SubSeq(high_issues, 1, IF Len(high_issues) < 3 THEN Len(high_issues) ELSE 3)
        ELSE <<>>
      general ==
        IF checklist_result.completeness_percentage < 8000
        THEN << "Complete document package for better compliance" >>
        ELSE <<>>
      recommendations == missing \o high \o general
  IN IF high_issues = <<>>
     THEN Append(recommendations, "Documents appear compliant. Proceed with submission.")
     ELSE recommendations

\* mutant: every High issue line is listed, without the [:3] of line 405
generate_recommendations_untruncated(documents, checklist_result) ==
  LET missing ==
        IF checklist_result.missing_documents # <<>>
        THEN << "Upload missing documents: "
                  \o Join(", ", checklist_result.missing_documents) >>
        ELSE <<>>
      high_issues == high_issue_lines(documents)
      high ==
        IF high_issues # <<>>
        THEN << "Address high severity issues immediately" >> \o high_issues
        ELSE <<>>
      general ==
        IF checklist_result.completeness_percentage < 8000
        THEN << "Complete document package for better compliance" >>
        ELSE <<>>
      recommendations == missing \o high \o general
  IN IF recommendations = <<>>
     THEN << "Documents appear compliant. Proceed with submission." >>
     ELSE recommendations

\* lines 386-414
generate_recommendations(documents, checklist_result) ==
  LET missing ==
        IF checklist_result.missing_documents # <<>>
        THEN << "Upload missing documents: "
                  \o Join(", ", checklist_result.missing_documents) >>
        ELSE <<>>
      high_issues == high_issue_lines(documents)
      high ==
        IF high_issues # <<>>
        THEN << "Address high severity issues immediately" >>
               \o SubSeq(high_issues, 1, IF Len(high_issues) < 3 THEN Len(high_issues) ELSE 3)
        ELSE <<>>
      general ==
        IF checklist_result.completeness_percentage < 8000
        THEN << "Complete document package for better compliance" >>
        ELSE <<>>
      recommendations == missing \o high \o general
  IN IF recommendations = <<>>
     THEN << "Documents appear compliant. Proceed with submission." >>
     ELSE recommendations

\* mutant: a complete checklist alone gives "Fully Compliant"
compliance_status_checklist_only(total_issues, high_severity_issues, checklist_status) ==
  IF checklist_status = "complete" THEN "Fully Compliant"
  ELSE IF high_severity_issues = 0 THEN "Partially Compliant"
  ELSE "Non-Compliant"

\* mutant: or in place of and in the first branch
compliance_status_or(total_issues, high_severity_issues, checklist_status) ==
  IF total_issues = 0 \/ checklist_status = "complete" THEN "Fully Compliant"
  ELSE IF high_severity_issues = 0 THEN "Partially Compliant"
  ELSE "Non-Compliant"

\* mutant: the checklist status is not consulted
compliance_status_issues_only(total_issues, high_severity_issues, checklist_status) ==
  IF total_issues = 0 THEN "Fully Compliant"
  ELSE IF high_severity_issues = 0 THEN "Partially Compliant"
  ELSE "Non-Compliant"

\* lines 359-365
compliance_status(total_issues, high_severity_issues, checklist_status) ==
  IF total_issues = 0 /\ checklist_status = "complete" THEN "Fully Compliant"
  ELSE IF high_severity_issues = 0 THEN "Partially Compliant"
  ELSE "Non-Compliant"

\* mutant: the exception leaves generate_comprehensive_report
error_propagated(message) == [ raised |-> message ]

\* the except branch (lines 379-384)
error_report(message) == [ status |-> "error", message |-> message ]

\* lines 351-377, after the checklist verification of line 349
report_of(documents, process_name, checklist_verification) ==
  LET total_issues == count_issues(documents)
      high_severity_issues == count_high(documents)
      status == compliance_status(total_issues, high_severity_issues,
                                  checklist_verification.status)
      raised == generate_recommendations_error(documents, checklist_verification)
  IN IF raised # None
     THEN error_report(raised)
     ELSE [ process |-> process_name,
            compliance_status |-> status,
            checklist_verification |-> checklist_verification,
            documents_analyzed |-> Len(documents),
            total_issues_found |-> total_issues,
            high_severity_issues |-> high_severity_issues,
            document_details |-> documents,
            recommendations |->
              generate_recommendations(documents, checklist_verification),
            timestamp |-> "2025-08-10T18:30:00" ]

generate_comprehensive_report(documents, process_name) ==
  IF \E i \in DOMAIN documents : "filename" \notin DOMAIN documents[i]
  THEN error_report("'filename'")
  ELSE
    LET uploaded_doc_names == [ i \in DOMAIN documents |-> documents[i].filename ] IN
    Bind(verify_checklist_completeness(uploaded_doc_names, process_name),
         LAMBDA checklist_verification :
           report_of(documents, process_name, checklist_verification))

---------------------------------------------------------------------------
(* adgm_corporate_agent.py: the analysis record process_documents builds   *)
(* for one parsed file (lines 59-76)                                        *)

document_analysis(self, filename, content) ==
  Bind(detect_document_type(self, content, filename), LAMBDA detected :
    Bind(check_adgm_compliance(self, content, detected[1]), LAMBDA issues :
      [ filename |-> filename,
        document_type |-> detected[1],
        category |-> detected[2],
        confidence_score |-> detected[3],
        issues |-> issues,
        issue_count |-> Len(issues),
        high_severity_issues |-> Len(SelectSeq(issues, is_high)) ]))

---------------------------------------------------------------------------
(* adgm_corporate_agent.py: process_documents.  An uploaded file is a      *)
(* record: name is its path, content the text parse_docx extracts from the *)
(* package at that path, parse_error the message of the exception that     *)
(* docx.Document raises on it (None if it opens), save_error the message   *)
(* of the exception that saving the reviewed copy raises (None if it is    *)
(* written).  The characters outside ASCII of the message literals are     *)
(* written as [x], [ok], [!], [list], [chart] and [alarm].                 *)

\* Path(file_path).name: the part after the last "/"
PathName(file_path) ==
  Bind({ i \in 1..Len(file_path) : CharAt(file_path, i) = "/" },
       LAMBDA slashes :
         IF slashes = {} THEN file_path
         ELSE SubSeq(file_path,
                     (CHOOSE i \in slashes : \A j \in slashes : j <= i) + 1,
                     Len(file_path)))

\* Path(file_path).with_suffix(suffix) as a str: the text from the last "."
\* of the name is replaced, unless that "." is the first or the last
\* character of the name or the name has none; then suffix is appended
with_suffix(file_path, suffix) ==
  Bind(Len(file_path) - Len(PathName(file_path)), LAMBDA parent :
    Bind({ i \in (parent + 1)..Len(file_path) : CharAt(file_path, i) = "." },
         LAMBDA dots :
           IF dots = {} THEN file_path \o suffix
           ELSE
             Bind(CHOOSE i \in dots : \A j \in dots : j <= i, LAMBDA last :
               IF parent + 1 < last /\ last < Len(file_path)
               THEN SubSeq(file_path, 1, last - 1) \o suffix
               ELSE file_path \o suffix)))

\* the path insert_comments returns when the reviewed copy is saved
\* (doc_processing.py lines 335-338)
insert_comments(self, file_path, issues) ==
  with_suffix(file_path, ".reviewed.docx")

\* mutant: the reviewed copy is written for every document, without the test
\* of line 81
reviewed_files_after_unconditional(self, reviewed_files, file, issues) ==
  IF file.save_error # None THEN reviewed_files
  ELSE Append(reviewed_files, insert_comments(self, file.name, issues))

\* lines 81-87: reviewed_files after the document of file with these issues
reviewed_files_after(self, reviewed_files, file, issues) ==
  IF issues = <<>> THEN reviewed_files
  ELSE IF file.save_error # None THEN reviewed_files
  ELSE Append(reviewed_files, insert_comments(self, file.name, issues))

\* the calls of lines 57 and 83 for one file, in order
calls_for(file, issues) ==
  << [ fn |-> "parse_docx", path |-> file.name ] >>
    \o (IF issues = <<>> THEN <<>>
        ELSE << [ fn |-> "insert_comments", path |-> file.name ] >>)

\* the float completeness_percentage as str() prints it
percentage_str(hundredths) ==
  ToString(hundredths \div 100) \o "."
    \o (IF hundredths % 10 = 0 THEN ToString((hundredths % 100) \div 10)
        ELSE IF hundredths % 100 < 10 THEN "0" \o ToString(hundredths % 100)
        ELSE ToString(hundredths % 100))

\* _generate_status_message (lines 113-158)
generate_status_message(report) ==
  IF "status" \in DOMAIN report /\ report.status = "error"
  THEN "[x] " \o report.message
  ELSE
    Join("\n",
      << IF report.compliance_status = "Fully Compliant" THEN "[ok] Fully Compliant"
         ELSE IF report.compliance_status = "Partially Compliant"
         THEN "[!] Partially Compliant"
         ELSE "[x] Non-Compliant" >>
      \o << IF report.checklist_verification.missing_count = 0
            THEN "[list] All required documents present"
            ELSE "[list] Missing "
                   \o ToString(report.checklist_verification.missing_count)
                   \o " required documents",
            "[chart] Document completeness: "
              \o percentage_str(report.checklist_verification.completeness_percentage)
              \o "%" >>
      \o (IF report.total_issues_found = 0
          THEN << "[ok] No compliance issues found" >>
          ELSE << "[!] Found " \o ToString(report.total_issues_found)
                    \o " compliance issues" >>
                 \o (IF report.high_severity_issues > 0
                     THEN << "[alarm] " \o ToString(report.high_severity_issues)
                               \o " high severity issues" >>
                     ELSE <<>>)))

\* a str given by its characters, as the first element of the result
text(s) == [ text |-> s ]

\* json.dumps(report, indent=2): the str that is the JSON text of the report,
\* kept as the object it encodes
json_dumps(report) == [ json |-> report ]

\* lines 28-33
no_files_result ==
  << text("No files uploaded"), "No files to process",
     "Please upload documents for analysis" >>

\* lines 35-40
no_process_type_result ==
  << text("No process type selected"), "No process specified",
     "Please select a business process" >>

\* lines 105-111; message is str(e)
error_result(message) ==
  << text("Error: " \o message), "Processing failed",
     "[x] Error occurred: " \o message >>

\* lines 99-103
report_result(comprehensive_report, reviewed_files) ==
  << json_dumps(comprehensive_report),
     IF reviewed_files # <<>> THEN Join("\n", reviewed_files)
     ELSE "No reviewed documents generated",
     generate_status_message(comprehensive_report) >>

\* mutant: the loop is left after its first iteration
loop_done_after_first(files, index) == index > 1

\* the for loop of line 47 has passed every file
loop_done(files, index) == index > Len(files)

---------------------------------------------------------------------------
(* Inputs *)

ProcessNames == DOMAIN ADGM_CHECKLISTS \cup {"Nonexistent Process"}

Filenames ==
  { "Draft_Articles_of_Association_v2.docx",
    "Draft Articles of Association v2.docx",
    "STANDARD EMPLOYMENT CONTRACT TEMPLATE & EMPLOYEE HANDBOOK.DOCX",
    "confidentiality agreement, non-compete agreement, hr policies and procedures.docx",
    "Compliance Manual.docx",
    "notes.txt" }

\* filenames passed to detect_document_type
DetectFilenames ==
  { "Draft_Articles_of_Association_v2.docx",
    "Draft Articles of Association v2.docx",
    "notes.txt" }

\* paragraphs of a document; parse_docx joins them with "\n" (line 101)
Paragraphs ==
  { "ARTICLES OF ASSOCIATION",
    "This clause binds the Company",
    "Clause 9: UAE Federal Courts",
    "Dubai Courts or ADGM Courts",
    "Abu Dhabi Global Market capital",
    "Dubai Law",
    "Employment\tAgreement: notice, signature",
    "UBO Declaration, ownership, UAE Federal Law" }

DocumentTypes ==
  { document_patterns[i].doc_type : i \in DOMAIN document_patterns }
    \cup {"Unknown Document"}

\* parsed files: <<filename, content>>
SampleFiles ==
  { << "STANDARD EMPLOYMENT CONTRACT TEMPLATE & EMPLOYEE HANDBOOK.DOCX",
       "Employment Agreement\nADGM Courts\nSignature\nNotice clause" >>,
    << "confidentiality agreement, non-compete agreement, hr policies and procedures.docx",
       "Abu Dhabi Global Market\nwitness\nSection 1" >>,
    << "confidentiality agreement, non-compete agreement, hr policies and procedures.docx",
       "Abu Dhabi Global Market\nwitness" >>,
    << "confidentiality agreement, non-compete agreement, hr policies and procedures.docx",
       "" >>,
    << "Draft_Articles_of_Association_v2.docx",
       "Articles of Association\nUAE Federal Courts\nsignature clause" >>,
    << "UBO.docx",
       "UBO Declaration\nDubai Courts\nUAE Federal Law\nsignature clause" >> }

AnalysisOf == [ f \in SampleFiles |-> document_analysis(DocumentProcessor, f[1], f[2]) ]

\* a record that is not an analysis: it has no "filename" key
MalformedDocument == [ issues |-> <<>> ]

Documents == { AnalysisOf[f] : f \in SampleFiles } \cup { MalformedDocument }

\* values of process_type; "" is what the form passes when none is selected
ProcessTypes == { "", "Employment", "Company Incorporation", "Nonexistent Process" }

UploadedFiles ==
  { [ name |-> "/tmp/g1/STANDARD EMPLOYMENT CONTRACT TEMPLATE & EMPLOYEE HANDBOOK.DOCX",
      content |-> "Employment Agreement\nADGM Courts\nSignature\nNotice clause",
      parse_error |-> None,
      save_error |-> None ],
    [ name |-> "/tmp/g2/confidentiality agreement, non-compete agreement, hr policies and procedures.docx",
      content |-> "Abu Dhabi Global Market\nwitness",
      parse_error |-> None,
      save_error |-> None ],
    [ name |-> "/tmp/g3/confidentiality agreement, non-compete agreement, hr policies and procedures.docx",
      content |-> "Abu Dhabi Global Market\nwitness",
      parse_error |-> None,
      save_error |-> "[Errno 13] Permission denied" ],
    [ name |-> "/tmp/g4/Draft_Articles_of_Association_v2.docx",
      content |-> "Articles of Association\nUAE Federal Courts\nsignature clause",
      parse_error |-> None,
      save_error |-> None ],
    [ name |-> "/tmp/g5/UBO.docx",
      content |-> "UBO Declaration\nDubai Courts\nUAE Federal Law\nsignature clause",
      parse_error |-> None,
      save_error |-> "[Errno 13] Permission denied" ],
    [ name |-> "/tmp/g6/scan.docx",
      content |-> "",
      parse_error |-> "Package not found at '/tmp/g6/scan.docx'",
      save_error |-> None ] }

\* the lists of at most MaxFiles uploaded files
FileLists == UNION { [ 1..n -> UploadedFiles ] : n \in 0..MaxFiles }

---------------------------------------------------------------------------
(* Operations.  No method of DocumentProcessor assigns to an attribute of  *)
(* self and no function of checklist.py assigns to a module global, so     *)
(* every call leaves processor and checklist_module unchanged.  A series   *)
(* of calls of one operation starts, after construction, with an empty     *)
(* list argument; each later call of the series passes the previous list   *)
(* with one more element, so every bounded argument list is reached.       *)

\* no check_adgm_compliance call has been recorded
NoFirstCheck == [ recorded |-> FALSE ]

\* process_documents has not been entered
NoFrame ==
  [ pc |-> "idle", index |-> 0, documents_analysis |-> <<>>,
    reviewed_files |-> <<>>, trace |-> <<>> ]

Init ==
  /\ call = [op |-> "init"]
  /\ ret = None
  /\ processor = DocumentProcessor
  /\ checklist_module = [ ADGM_CHECKLISTS |-> ADGM_CHECKLISTS ]
  /\ first_check = NoFirstCheck
  /\ frame = NoFrame

CallVerify(uploaded_docs, process_name) ==
  /\ call' = [ op |-> "verify_checklist_completeness",
               uploaded_docs |-> uploaded_docs, process_name |-> process_name ]
  /\ ret' = verify_checklist_completeness(uploaded_docs, process_name)
  /\ UNCHANGED <<processor, checklist_module, frame>>

VerifyChecklistCompleteness ==
  /\ UNCHANGED first_check
  /\ \/ /\ call.op = "init"
        /\ \E process_name \in ProcessNames : CallVerify(<<>>, process_name)
     \/ /\ call.op = "verify_checklist_completeness"
        /\ Len(call.uploaded_docs) < MaxUploaded
        /\ \E f \in Filenames :
             CallVerify(Append(call.uploaded_docs, f), call.process_name)

CallDetect(paragraphs, filename) ==
  LET content == Join("\n", paragraphs) IN
  /\ call' = [ op |-> "detect_document_type", paragraphs |-> paragraphs,
               content |-> content, filename |-> filename ]
  /\ ret' = detect_document_type(processor, content, filename)
  /\ UNCHANGED <<processor, checklist_module, frame>>

DetectDocumentType ==
  /\ UNCHANGED first_check
  /\ \/ /\ call.op = "init"
        /\ \E filename \in DetectFilenames : CallDetect(<<>>, filename)
     \/ /\ call.op = "detect_document_type"
        /\ Len(call.paragraphs) < MaxParagraphs
        /\ \E para \in Paragraphs :
             CallDetect(Append(call.paragraphs, para), call.filename)

\* mutant: the evaluator pops the first forbidden jurisdiction off the rule
\* table of the instance on every call
CallCheckConsumingRule(paragraphs, document_type) ==
  LET content == Join("\n", paragraphs) IN
  /\ call' = [ op |-> "check_adgm_compliance", paragraphs |-> paragraphs,
               content |-> content, document_type |-> document_type ]
  /\ ret' = check_adgm_compliance(processor, content, document_type)
  /\ processor' =
       [ processor EXCEPT !.compliance_rules.jurisdiction.forbidden =
           IF @ = <<>> THEN @ ELSE Tail(@) ]
  /\ UNCHANGED <<checklist_module, frame>>

CallCheck(paragraphs, document_type) ==
  LET content == Join("\n", paragraphs) IN
  /\ call' = [ op |-> "check_adgm_compliance", paragraphs |-> paragraphs,
               content |-> content, document_type |-> document_type ]
  /\ ret' = check_adgm_compliance(processor, content, document_type)
  /\ UNCHANGED <<processor, checklist_module, frame>>

CheckAdgmCompliance ==
  /\ UNCHANGED first_check
  /\ \/ /\ call.op = "init"
        /\ \E document_type \in DocumentTypes : CallCheck(<<>>, document_type)
     \/ /\ call.op = "check_adgm_compliance"
        /\ Len(call.paragraphs) < MaxParagraphs
        /\ \E para \in Paragraphs :
             CallCheck(Append(call.paragraphs, para), call.document_type)

CallReport(documents, process_name) ==
  /\ call' = [ op |-> "generate_comprehensive_report",
               documents |-> documents, process_name |-> process_name ]
  /\ ret' = generate_comprehensive_report(documents, process_name)
  /\ UNCHANGED <<processor, checklist_module, frame>>

GenerateComprehensiveReport ==
  /\ UNCHANGED first_check
  /\ \/ /\ call.op = "init"
        /\ \E process_name \in ProcessNames : CallReport(<<>>, process_name)
     \/ /\ call.op = "generate_comprehensive_report"
        /\ Len(call.documents) < MaxDocuments
        /\ \E doc \in Documents :
             CallReport(Append(call.documents, doc), call.process_name)

Next ==
  \/ VerifyChecklistCompleteness
  \/ DetectDocumentType
  \/ CheckAdgmCompliance
  \/ GenerateComprehensiveReport

Spec == Init /\ [][Next]_vars

---------------------------------------------------------------------------
(* Repeated evaluation.  One check_adgm_compliance call is recorded in     *)
(* first_check; afterwards classifier, evaluator, checklist and report     *)
(* calls follow in any order and number, and the recorded call can be      *)
(* repeated at any point.  interleaved tells that another operation ran    *)
(* after the recorded call.                                                *)

RepeatParagraphs ==
  { "Clause 9: UAE Federal Courts",
    "Dubai Law",
    "Abu Dhabi Global Market capital" }

RepeatTypes == { "Articles of Association", "Unknown Document" }

RepeatProcesses == { "Employment", "Nonexistent Process" }

SameAsFirst(paragraphs, document_type) ==
  /\ first_check.recorded
  /\ paragraphs = first_check.paragraphs
  /\ document_type = first_check.document_type

FirstCheck ==
  /\ call.op = "init"
  /\ ~first_check.recorded
  /\ \E document_type \in RepeatTypes, para \in RepeatParagraphs :
       /\ CallCheck(<<para>>, document_type)
       /\ first_check' = [ recorded |-> TRUE, interleaved |-> FALSE,
                           paragraphs |-> <<para>>,
                           document_type |-> document_type,
                           issues |-> ret' ]

OtherVerify ==
  /\ first_check.recorded
  /\ \E process_name \in ProcessNames :
       CallVerify(<<"Compliance Manual.docx">>, process_name)
  /\ first_check' = [ first_check EXCEPT !.interleaved = TRUE ]

OtherDetect ==
  /\ first_check.recorded
  /\ \E para \in RepeatParagraphs : CallDetect(<<para>>, "notes.txt")
  /\ first_check' = [ first_check EXCEPT !.interleaved = TRUE ]

OtherCheck ==
  /\ first_check.recorded
  /\ \E document_type \in DocumentTypes, para \in RepeatParagraphs :
       /\ ~SameAsFirst(<<para>>, document_type)
       /\ CallCheck(<<para>>, document_type)
  /\ first_check' = [ first_check EXCEPT !.interleaved = TRUE ]

OtherReport ==
  /\ first_check.recorded
  /\ \E process_name \in RepeatProcesses, doc \in Documents :
       CallReport(<<doc>>, process_name)
  /\ first_check' = [ first_check EXCEPT !.interleaved = TRUE ]

CheckAgain ==
  /\ first_check.recorded
  /\ CallCheck(first_check.paragraphs, first_check.document_type)
  /\ UNCHANGED first_check

NextRepeat ==
  \/ FirstCheck
  \/ OtherVerify
  \/ OtherDetect
  \/ OtherCheck
  \/ OtherReport
  \/ CheckAgain

SpecRepeat == Init /\ [][NextRepeat]_vars

---------------------------------------------------------------------------
(* process_documents, one call after construction.  frame is the           *)
(* activation of the call: pc its position, index the position of the for  *)
(* loop, documents_analysis and reviewed_files its locals, trace the calls *)
(* it has made of parse_docx, insert_comments and                          *)
(* generate_comprehensive_report.                                          *)

\* lines 24-45: the two guards, then the locals of the try block
ProcessDocuments ==
  /\ call.op = "init"
  /\ \E files \in FileLists, process_type \in ProcessTypes :
       /\ call' = [ op |-> "process_documents", files |-> files,
                    process_type |-> process_type ]
       /\ IF files = <<>>
          THEN /\ ret' = no_files_result
               /\ frame' = [ NoFrame EXCEPT !.pc = "returned" ]
          ELSE IF process_type = ""
          THEN /\ ret' = no_process_type_result
               /\ frame' = [ NoFrame EXCEPT !.pc = "returned" ]
          ELSE /\ ret' = ret
               /\ frame' = [ NoFrame EXCEPT !.pc = "loop", !.index = 1 ]
  /\ UNCHANGED <<processor, checklist_module, first_check>>

\* lines 47-87: one iteration of the loop; an exception of parse_docx is
\* caught at line 105
ProcessFile ==
  /\ frame.pc = "loop"
  /\ ~loop_done(call.files, frame.index)
  /\ \E file \in { call.files[frame.index] } :
       IF file.parse_error # None
       THEN /\ ret' = error_result(file.parse_error)
            /\ frame' = [ frame EXCEPT
                 !.pc = "returned",
                 !.trace = Append(@, [ fn |-> "parse_docx", path |-> file.name ]) ]
       ELSE \E doc_analysis \in
                { document_analysis(processor, PathName(file.name), file.content) } :
              /\ ret' = ret
              /\ frame' = [ frame EXCEPT
                   !.index = @ + 1,
                   !.documents_analysis = Append(@, doc_analysis),
                   !.reviewed_files =
                      reviewed_files_after(processor, @, file, doc_analysis.issues),
                   !.trace = @ \o calls_for(file, doc_analysis.issues) ]
  /\ UNCHANGED <<call, processor, checklist_module, first_check>>

\* lines 89-103
ReturnReport ==
  /\ frame.pc = "loop"
  /\ loop_done(call.files, frame.index)
  /\ \E comprehensive_report \in
         { generate_comprehensive_report(frame.documents_analysis, call.process_type) } :
       ret' = report_result(comprehensive_report, frame.reviewed_files)
  /\ frame' = [ frame EXCEPT
       !.pc = "returned",
       !.trace = Append(@, [ fn |-> "generate_comprehensive_report", path |-> None ]) ]
  /\ UNCHANGED <<call, processor, checklist_module, first_check>>

NextProcess ==
  \/ ProcessDocuments
  \/ ProcessFile
  \/ ReturnReport

SpecProcess == Init /\ [][NextProcess]_vars

---------------------------------------------------------------------------
(* Properties *)

Range(xs) == { xs[i] : i \in DOMAIN xs }

ValidProcess(process_name) == process_name \in DOMAIN ADGM_CHECKLISTS

\* every record of the list has the keys of an analysis record
WellFormed(documents) ==
  \A i \in DOMAIN documents : {"filename", "issues"} \subseteq DOMAIN documents[i]

IsDetect == call.op = "detect_document_type"

IsCheck == call.op = "check_adgm_compliance"

IsVerify == call.op = "verify_checklist_completeness"

IsReport == call.op = "generate_comprehensive_report"

\* no pattern of the detection table matches the lowercased content or filename
NoPatternMatches(content, filename) ==
  \E c \in {Lower(content)}, f \in {Lower(filename)} :
    \A t \in DOMAIN document_patterns :
      \A k \in DOMAIN document_patterns[t].patterns :
        /\ ~re_search(document_patterns[t].patterns[k], c)
        /\ ~re_search(document_patterns[t].patterns[k], f)

\* some type's secondary keyword pair occurs in the lowercased content
SomeKeywordPair(content) ==
  \E c \in {Lower(content)} :
  \/ In("clause", c) /\ In("company", c)
  \/ In("object", c) /\ In("purpose", c)
  \/ In("ownership", c) /\ In("percentage", c)

UnknownResult == <<"Unknown Document", "General Legal", F_0_0>>

\* C1 as stated: whenever no detection pattern matches the lowercased content
\* or filename, detect_document_type returns
\* ("Unknown Document", "General Legal", 0.0).
C1_NoPatternGivesUnknown ==
  (IsDetect /\ NoPatternMatches(call.content, call.filename)) => ret = UnknownResult

\* C1 amended: whenever no detection pattern matches the lowercased content or
\* filename and no secondary keyword pair (clause+company, object+purpose,
\* ownership+percentage) occurs in the lowercased content,
\* detect_document_type returns ("Unknown Document", "General Legal", 0.0).
C1_NoPatternNoPairGivesUnknown ==
  (IsDetect /\ NoPatternMatches(call.content, call.filename)
            /\ ~SomeKeywordPair(call.content))
    => ret = UnknownResult

C1_Witness ==
  /\ IsDetect
  /\ Len(call.paragraphs) = 2
  /\ NoPatternMatches(call.content, call.filename)
  /\ ~SomeKeywordPair(call.content)
  /\ ret = UnknownResult

\* C2 as stated: an uploaded "Draft_Articles_of_Association_v2.docx" makes the
\* required document "Articles of Association" present for
\* "Company Incorporation".
C2_UnderscoreFilenamePresent ==
  (/\ IsVerify
   /\ call.process_name = "Company Incorporation"
   /\ "Draft_Articles_of_Association_v2.docx" \in Range(call.uploaded_docs))
    => "Articles of Association" \in Range(ret.present_documents)

\* C2 amended: an uploaded "Draft Articles of Association v2.docx" (the words
\* of the required name separated by single spaces) makes "Articles of
\* Association" present for "Company Incorporation"; when the only uploaded
\* filename is "Draft_Articles_of_Association_v2.docx" (words joined by
\* underscores) the document is missing.
C2_SpaceFilenamePresent ==
  (IsVerify /\ call.process_name = "Company Incorporation") =>
    /\ ("Draft Articles of Association v2.docx" \in Range(call.uploaded_docs))
         => "Articles of Association" \in Range(ret.present_documents)
    /\ (Range(call.uploaded_docs) = {"Draft_Articles_of_Association_v2.docx"})
         => "Articles of Association" \in Range(ret.missing_documents)

C2_Witness ==
  /\ IsVerify
  /\ call.process_name = "Company Incorporation"
  /\ call.uploaded_docs = << "Draft_Articles_of_Association_v2.docx",
                             "Draft Articles of Association v2.docx" >>
  /\ ret.present_documents = << "Articles of Association" >>
  /\ ret.uploaded_count = 1

\* the lowercased required name is a substring of a lowercased uploaded filename
Matched(req_doc, uploaded_docs) ==
  \E i \in DOMAIN uploaded_docs : In(Lower(req_doc), Lower(uploaded_docs[i]))

\* C3: for a valid process, a required document is in present_documents iff
\* its lowercased name is a substring of some lowercased uploaded filename,
\* otherwise it is in missing_documents; the two lists together hold every
\* required document exactly once, each list in checklist order.
C3_PresentIffSubstring ==
  (IsVerify /\ ValidProcess(call.process_name)) =>
    LET required == ADGM_CHECKLISTS[call.process_name].required_documents
        in_present(d) == d \in Range(ret.present_documents)
        in_missing(d) == d \in Range(ret.missing_documents)
    IN /\ \A k \in DOMAIN required :
            /\ in_present(required[k]) <=> Matched(required[k], call.uploaded_docs)
            /\ in_missing(required[k]) <=> ~Matched(required[k], call.uploaded_docs)
       /\ ret.present_documents = SelectSeq(required, in_present)
       /\ ret.missing_documents = SelectSeq(required, in_missing)
       /\ Len(ret.present_documents) + Len(ret.missing_documents) = Len(required)

C3_Witness ==
  /\ IsVerify
  /\ call.process_name = "Employment"
  /\ call.uploaded_docs =
       << "notes.txt", "STANDARD EMPLOYMENT CONTRACT TEMPLATE & EMPLOYEE HANDBOOK.DOCX" >>
  /\ ret.present_documents =
       << "Standard Employment Contract Template", "Employee Handbook" >>
  /\ ret.missing_documents =
       << "Confidentiality Agreement", "Non-Compete Agreement",
          "HR Policies and Procedures" >>

HasForbiddenJurisdiction(content) ==
  \E c \in {Lower(content)} :
    \E i \in DOMAIN compliance_rules.jurisdiction.forbidden :
      In(Lower(compliance_rules.jurisdiction.forbidden[i]), c)

HasRequiredJurisdiction(content) ==
  \E c \in {Lower(content)} :
    \E i \in DOMAIN compliance_rules.jurisdiction.required :
      In(Lower(compliance_rules.jurisdiction.required[i]), c)

IsJurisdictionIssue(issue) == issue.section = "Jurisdiction"

\* C4: for a text containing a forbidden jurisdiction phrase (with or without
\* a required ADGM phrase) check_adgm_compliance returns exactly one issue of
\* section "Jurisdiction"; it is High, its text is "Incorrect jurisdiction: "
\* followed by a forbidden phrase that occurs in the text, and no issue
\* "Missing ADGM jurisdiction clause" is returned.
C4_ForbiddenJurisdictionOneIssue ==
  (IsCheck /\ HasForbiddenJurisdiction(call.content)) =>
    LET jurisdiction == SelectSeq(ret, IsJurisdictionIssue) IN
    /\ Len(jurisdiction) = 1
    /\ jurisdiction[1].severity = "High"
    /\ \E i \in DOMAIN compliance_rules.jurisdiction.forbidden :
         LET phrase == compliance_rules.jurisdiction.forbidden[i] IN
         /\ In(Lower(phrase), Lower(call.content))
         /\ jurisdiction[1].issue = "Incorrect jurisdiction: " \o phrase
    /\ \A k \in DOMAIN ret : ret[k].issue # "Missing ADGM jurisdiction clause"

C4_Witness ==
  /\ IsCheck
  /\ HasForbiddenJurisdiction(call.content)
  /\ HasRequiredJurisdiction(call.content)
  /\ \E k \in DOMAIN ret : ret[k].issue = "Incorrect jurisdiction: Dubai Courts"

HasHighIssue(documents) ==
  \E i \in DOMAIN documents :
    \E k \in DOMAIN documents[i].issues : documents[i].issues[k].severity = "High"

IsFullReport == IsReport /\ "compliance_status" \in DOMAIN ret

\* C5: for a valid process and a list of document analyses with at least one
\* High issue, generate_comprehensive_report returns compliance_status
\* "Non-Compliant", whatever the issue total and the checklist completeness.
C5_HighIssueNonCompliant ==
  (/\ IsReport
   /\ ValidProcess(call.process_name)
   /\ WellFormed(call.documents)
   /\ HasHighIssue(call.documents))
    => (IsFullReport /\ ret.compliance_status = "Non-Compliant")

C5_Witness ==
  /\ IsFullReport
  /\ HasHighIssue(call.documents)
  /\ ret.checklist_verification.status = "complete"
  /\ ret.compliance_status = "Non-Compliant"

\* C6: for a valid process the compliance_status is decided by
\* (total_issues_found, high_severity_issues, checklist status) alone:
\* "Fully Compliant" iff no issue and checklist "complete"; otherwise
\* "Partially Compliant" if no High issue; otherwise "Non-Compliant".
C6_StatusDecisionOrder ==
  (IsReport /\ ValidProcess(call.process_name) /\ WellFormed(call.documents)) =>
    /\ IsFullReport
    /\ LET fully == /\ ret.total_issues_found = 0
                    /\ ret.checklist_verification.status = "complete"
       IN /\ (ret.compliance_status = "Fully Compliant") <=> fully
          /\ (ret.compliance_status = "Partially Compliant")
               <=> (~fully /\ ret.high_severity_issues = 0)
          /\ (ret.compliance_status = "Non-Compliant")
               <=> (~fully /\ ret.high_severity_issues # 0)

C6_Witness ==
  /\ IsFullReport
  /\ Len(call.documents) = 2
  /\ ret.total_issues_found = 0
  /\ ret.checklist_verification.status = "complete"
  /\ ret.compliance_status = "Fully Compliant"

\* C7: for a valid process completeness_percentage is in [0, 100], and a call
\* whose uploaded list contains the previous call's uploaded list returns a
\* percentage that is not smaller.  (Percentages are in hundredths.)
C7_PercentageBoundedMonotone ==
  [][ (call'.op = "verify_checklist_completeness" /\ ValidProcess(call'.process_name)) =>
        /\ ret'.completeness_percentage >= 0
        /\ ret'.completeness_percentage <= 10000
        /\ (/\ IsVerify
            /\ call.process_name = call'.process_name
            /\ \A i \in DOMAIN call.uploaded_docs :
                 call.uploaded_docs[i] \in Range(call'.uploaded_docs))
             => ret'.completeness_percentage >= ret.completeness_percentage ]_vars

C7_Witness ==
  /\ IsVerify
  /\ call.process_name = "Employment"
  /\ Len(call.uploaded_docs) = 2
  /\ call.uploaded_docs[1] = "notes.txt"
  /\ ret.completeness_percentage = 6000

\* C8: for a valid process verify_checklist_completeness divides by a
\* required count of at least one, and returns required_count =
\* uploaded_count + missing_count, completeness_percentage = 100 *
\* uploaded_count / required_count rounded to two decimals with
\* uploaded_count the number of present required documents (not of uploaded
\* files), and status "complete" iff missing_documents is empty (then the
\* percentage is 100), otherwise "incomplete".
C8_CountsAndPercentage ==
  (IsVerify /\ ValidProcess(call.process_name)) =>
    LET required == ADGM_CHECKLISTS[call.process_name].required_documents
        matched == { k \in DOMAIN required : Matched(required[k], call.uploaded_docs) }
    IN /\ \A p \in DOMAIN ADGM_CHECKLISTS :
            Len(ADGM_CHECKLISTS[p].required_documents) >= 1
       /\ ret.required_count = Len(required)
       /\ ret.required_count = ret.uploaded_count + ret.missing_count
       /\ ret.uploaded_count = Cardinality(matched)
       /\ ret.uploaded_count = Len(ret.present_documents)
       /\ 2 * (ret.completeness_percentage * ret.required_count
                 - 10000 * ret.uploaded_count) <= ret.required_count
       /\ 2 * (10000 * ret.uploaded_count
                 - ret.completeness_percentage * ret.required_count) <= ret.required_count
       /\ ret.status \in {"complete", "incomplete"}
       /\ (ret.status = "complete") <=> (ret.missing_documents = <<>>)
       /\ (ret.missing_documents = <<>>) => (ret.completeness_percentage = 10000)

C8_Witness ==
  /\ IsVerify
  /\ call.process_name = "Licensing"
  /\ Len(call.uploaded_docs) = 2
  /\ ret.uploaded_count = 1
  /\ ret.completeness_percentage = 1429
  /\ ret.status = "incomplete"

\* C9: for a process name that is not a key of the checklist table,
\* verify_checklist_completeness returns status "error" without a
\* completeness_percentage, and generate_comprehensive_report returns, for
\* any document list, status "error" and a message and no compliance_status.
C9_UnknownProcessError ==
  /\ (IsVerify /\ ~ValidProcess(call.process_name)) =>
       /\ "status" \in DOMAIN ret /\ ret.status = "error"
       /\ "completeness_percentage" \notin DOMAIN ret
  /\ (IsReport /\ ~ValidProcess(call.process_name)) =>
       /\ DOMAIN ret = {"status", "message"}
       /\ ret.status = "error"

C9_Witness ==
  /\ IsReport
  /\ call.process_name = "Nonexistent Process"
  /\ Len(call.documents) = 2
  /\ WellFormed(call.documents)
  /\ ret = [status |-> "error", message |-> "'missing_documents'"]

\* C10: for a valid process and an empty uploaded list the checklist result
\* has uploaded_count 0, missing_count = required_count (5 for "Employment"),
\* completeness_percentage 0.0 and status "incomplete"; and the report of an
\* empty document list has documents_analyzed, total_issues_found and
\* high_severity_issues 0 and compliance_status "Partially Compliant".
C10_EmptyInputs ==
  /\ (IsVerify /\ ValidProcess(call.process_name) /\ call.uploaded_docs = <<>>) =>
       /\ ret.uploaded_count = 0
       /\ ret.missing_count = ret.required_count
       /\ (call.process_name = "Employment") => (ret.missing_count = 5)
       /\ ret.completeness_percentage = 0
       /\ ret.status = "incomplete"
  /\ (IsReport /\ ValidProcess(call.process_name) /\ call.documents = <<>>) =>
       /\ IsFullReport
       /\ ret.documents_analyzed = 0
       /\ ret.total_issues_found = 0
       /\ ret.high_severity_issues = 0
       /\ ret.compliance_status = "Partially Compliant"
       /\ ret.checklist_verification.status = "incomplete"

C10_Witness ==
  /\ IsReport
  /\ call.process_name = "Employment"
  /\ call.documents = <<>>
  /\ ret.checklist_verification.missing_count = 5
  /\ ret.compliance_status = "Partially Compliant"

---------------------------------------------------------------------------
(* Compliance evaluation: scenarios, rule order, single rules *)

\* <<issue, severity>> of each issue of a list, in order
Brief(issues) == [ i \in DOMAIN issues |-> <<issues[i].issue, issues[i].severity>> ]

\* some phrase of the list occurs, lowercased, in the lowercased content c
AnyPhrase(phrases, c) == \E i \in DOMAIN phrases : In(Lower(phrases[i]), c)

HasSignatureWord(c) == AnyPhrase(<<"signature", "witness", "notary">>, c)

HasStructureWord(c) == AnyPhrase(<<"clause", "section", "article">>, c)

HasForbiddenLaw(c) == AnyPhrase(<<"UAE Federal Law", "Dubai Law">>, c)

\* C11: for every text that contains "UAE Federal Courts", one of
\* {signature, witness, notary} and one of {clause, section, article}, no
\* forbidden law phrase and not "capital" (all on the lowercased text),
\* check_adgm_compliance with type "Articles of Association" returns exactly
\* ["Incorrect jurisdiction: UAE Federal Courts" (High),
\*  "Missing share capital information" (Medium)], in that order.
C11_ScenarioA ==
  (/\ IsCheck
   /\ call.document_type = "Articles of Association"
   /\ \E c \in {Lower(call.content)} :
        /\ In("uae federal courts", c)
        /\ HasSignatureWord(c)
        /\ HasStructureWord(c)
        /\ ~HasForbiddenLaw(c)
        /\ ~In("capital", c))
    => Brief(ret) = << <<"Incorrect jurisdiction: UAE Federal Courts", "High">>,
                       <<"Missing share capital information", "Medium">> >>

C11_Witness ==
  /\ IsCheck
  /\ call.document_type = "Articles of Association"
  /\ call.content = "Clause 9: UAE Federal Courts\n"
                       \o "Employment\tAgreement: notice, signature"
  /\ Len(ret) = 2
  /\ ret[1].section = "Jurisdiction"
  /\ ret[2].section = "Share Capital"

\* position of a rule in the evaluation order, by the section of its issue
SectionRank(section) ==
  IF section = "Jurisdiction" THEN 1
  ELSE IF section = "Governing Law" THEN 2
  ELSE IF section = "Execution" THEN 3
  ELSE IF section = "Document Requirements" THEN 4
  ELSE IF section \in {"Share Capital", "Beneficial Ownership", "Employment Terms"} THEN 5
  ELSE 0

\* C12: the issue list of check_adgm_compliance is a subsequence of the rule
\* order [jurisdiction, governing-law, signature, structure, type-specific]:
\* at most five issues, every issue belongs to one of the rules, no two
\* issues share a section, and issues of earlier rules precede issues of
\* later rules.
C12_IssuesInRuleOrder ==
  IsCheck =>
    /\ Len(ret) <= 5
    /\ \A i \in DOMAIN ret : SectionRank(ret[i].section) \in 1..5
    /\ \A i, j \in DOMAIN ret :
         i < j => SectionRank(ret[i].section) < SectionRank(ret[j].section)

C12_Witness ==
  /\ IsCheck
  /\ call.content = "Dubai Law"
  /\ call.document_type = "Articles of Association"
  /\ Len(ret) = 5
  /\ [ i \in DOMAIN ret |-> SectionRank(ret[i].section) ] = <<1, 2, 3, 4, 5>>

\* C13: a check_adgm_compliance call with the (content, type) of the recorded
\* first call returns the issue list of that first call (same issues, same
\* order), whatever classifier, evaluator, checklist or report calls ran in
\* between; and the detection table, the compliance rule set and the
\* checklist table are in every state the ones construction made.
C13_RepeatedCheckSameIssues ==
  /\ (IsCheck /\ SameAsFirst(call.paragraphs, call.document_type))
       => ret = first_check.issues
  /\ processor.document_patterns = document_patterns
  /\ processor.compliance_rules = compliance_rules
  /\ checklist_module.ADGM_CHECKLISTS = ADGM_CHECKLISTS

C13_Witness ==
  /\ IsCheck
  /\ SameAsFirst(call.paragraphs, call.document_type)
  /\ first_check.interleaved
  /\ call.content = "Clause 9: UAE Federal Courts"
  /\ call.document_type = "Articles of Association"
  /\ ret = first_check.issues
  /\ Len(ret) = 3

---------------------------------------------------------------------------
(* Report: failure shape *)

ReportKeys ==
  { "process", "compliance_status", "checklist_verification",
    "documents_analyzed", "total_issues_found", "high_severity_issues",
    "document_details", "recommendations", "timestamp" }

IsErrorShape(r) == DOMAIN r = {"status", "message"} /\ r.status = "error"

HasFilenames(documents) ==
  \A i \in DOMAIN documents : "filename" \in DOMAIN documents[i]

\* C14: generate_comprehensive_report always returns a report-shaped value:
\* {status: "error", message} when a step inside it fails (a document record
\* without "filename": message 'filename'; a checklist result without
\* missing_documents, as for an unknown process: message
\* 'missing_documents'), and a full report otherwise.
C14_ReportNeverRaises ==
  IsReport =>
    IF ~HasFilenames(call.documents)
    THEN IsErrorShape(ret) /\ ret.message = "'filename'"
    ELSE IF ~ValidProcess(call.process_name)
    THEN IsErrorShape(ret) /\ ret.message = "'missing_documents'"
    ELSE DOMAIN ret = ReportKeys

C14_Witness ==
  /\ IsReport
  /\ call.process_name = "Employment"
  /\ Len(call.documents) = 2
  /\ HasFilenames(<<call.documents[1]>>)
  /\ call.documents[2] = MalformedDocument
  /\ ret = [ status |-> "error", message |-> "'filename'" ]

---------------------------------------------------------------------------
(* Empty text *)

\* <<issue, severity>> of the type-specific issue raised when the type's
\* keywords are absent; empty for a type without a type-specific check
SpecificBrief(document_type) ==
  IF document_type = "Articles of Association"
  THEN << <<"Missing share capital information", "Medium">> >>
  ELSE IF document_type = "UBO Declaration"
  THEN << <<"Missing ownership percentages", "High">> >>
  ELSE IF document_type = "Employment Contract"
  THEN << <<"Missing termination clauses", "Medium">> >>
  ELSE <<>>

\* C15: on empty content, with a filename matching no pattern,
\* detect_document_type returns ("Unknown Document", "General Legal", 0.0);
\* and check_adgm_compliance returns exactly
\* ["Missing ADGM jurisdiction clause" (High), "Missing signature section"
\* (Medium), "Poor document structure" (Low)], followed by the type-specific
\* issue when the type is Articles of Association, UBO Declaration or
\* Employment Contract, and nothing else.
C15_EmptyContent ==
  /\ (IsDetect /\ call.content = "" /\ NoPatternMatches("", call.filename))
       => ret = UnknownResult
  /\ (IsCheck /\ call.content = "")
       => Brief(ret) = << <<"Missing ADGM jurisdiction clause", "High">>,
                          <<"Missing signature section", "Medium">>,
                          <<"Poor document structure", "Low">> >>
                       \o SpecificBrief(call.document_type)

C15_Witness ==
  /\ IsCheck
  /\ call.content = ""
  /\ call.document_type = "UBO Declaration"
  /\ Len(ret) = 4
  /\ ret[4].issue = "Missing ownership percentages"

---------------------------------------------------------------------------
(* Single rules of the evaluator *)

\* the issues of a list that belong to one section, in order
InSection(issues, section) ==
  SelectSeq(issues, LAMBDA issue : issue.section = section)

\* C16: the governing-law check emits an issue iff the lowercased text
\* contains a forbidden law phrase ("UAE Federal Law" or "Dubai Law"); the
\* issue is High with text "Incorrect governing law: <phrase>", the phrase
\* being the first of the two that occurs; a text with no forbidden law
\* phrase, whether or not it states a required law, gets no governing-law
\* issue.
C16_GoverningLawForbiddenOnly ==
  IsCheck =>
    \E c \in {Lower(call.content)} :
      Brief(InSection(ret, "Governing Law")) =
        IF In("uae federal law", c)
        THEN << <<"Incorrect governing law: UAE Federal Law", "High">> >>
        ELSE IF In("dubai law", c)
        THEN << <<"Incorrect governing law: Dubai Law", "High">> >>
        ELSE <<>>

C16_Witness ==
  /\ IsCheck
  /\ call.paragraphs = << "Dubai Law",
                          "UBO Declaration, ownership, UAE Federal Law" >>
  /\ Len(InSection(ret, "Governing Law")) = 1
  /\ ret[2].issue = "Incorrect governing law: UAE Federal Law"
  /\ ret[2].severity = "High"

\* C17: when the text contains no forbidden jurisdiction phrase, the
\* jurisdiction check emits the High issue "Missing ADGM jurisdiction clause"
\* iff none of "ADGM", "Abu Dhabi Global Market", "ADGM Courts" occurs in it
\* (case-insensitive); with a required phrase and no forbidden phrase there
\* is no jurisdiction issue.
C17_MissingJurisdictionIffNoRequired ==
  (IsCheck /\ ~HasForbiddenJurisdiction(call.content)) =>
    Brief(InSection(ret, "Jurisdiction")) =
      IF HasRequiredJurisdiction(call.content)
      THEN <<>>
      ELSE << <<"Missing ADGM jurisdiction clause", "High">> >>

C17_Witness ==
  /\ IsCheck
  /\ call.paragraphs = << "Abu Dhabi Global Market capital", "Dubai Law" >>
  /\ ~HasForbiddenJurisdiction(call.content)
  /\ HasRequiredJurisdiction(call.content)
  /\ InSection(ret, "Jurisdiction") = <<>>
  /\ Len(ret) >= 1

\* C18: a type-specific issue is emitted iff the type is Articles of
\* Association, UBO Declaration or Employment Contract and none of the
\* type's keywords occurs in the lowercased content ("capital" -> Medium;
\* "percentage"/"ownership" -> High; "termination"/"notice" -> Medium); it is
\* then exactly one issue; every other type, "Unknown Document" included,
\* gets none.
C18_TypeSpecificIssue ==
  IsCheck =>
    \E c \in {Lower(call.content)}, t \in {call.document_type} :
      Brief(SelectSeq(ret, LAMBDA issue : SectionRank(issue.section) = 5)) =
        IF \/ t = "Articles of Association" /\ ~In("capital", c)
           \/ t = "UBO Declaration" /\ ~In("percentage", c) /\ ~In("ownership", c)
           \/ t = "Employment Contract" /\ ~In("termination", c) /\ ~In("notice", c)
        THEN SpecificBrief(t)
        ELSE <<>>

C18_Witness ==
  /\ IsCheck
  /\ call.document_type = "Employment Contract"
  /\ call.paragraphs = << "Abu Dhabi Global Market capital",
                          "ARTICLES OF ASSOCIATION" >>
  /\ Len(ret) = 2
  /\ ret[2].issue = "Missing termination clauses"
  /\ ret[2].severity = "Medium"

\* C19: the signature-block check emits its issue (Medium, "Missing signature
\* section") iff none of {signature, witness, notary} occurs in the
\* lowercased text, and the structure check emits its issue (Low, "Poor
\* document structure") iff none of {clause, section, article} occurs in it,
\* whatever the document type and the outcomes of the other checks.
C19_SignatureAndStructure ==
  IsCheck =>
    \E c \in {Lower(call.content)} :
      /\ Brief(InSection(ret, "Execution")) =
           IF HasSignatureWord(c) THEN <<>>
           ELSE << <<"Missing signature section", "Medium">> >>
      /\ Brief(InSection(ret, "Document Requirements")) =
           IF HasStructureWord(c) THEN <<>>
           ELSE << <<"Poor document structure", "Low">> >>

C19_Witness ==
  /\ IsCheck
  /\ call.document_type = "Board Resolution"
  /\ call.paragraphs = << "ARTICLES OF ASSOCIATION", "Dubai Courts or ADGM Courts" >>
  /\ Len(InSection(ret, "Execution")) = 1
  /\ InSection(ret, "Document Requirements") = <<>>

---------------------------------------------------------------------------
(* Classifier: the winning type *)

\* the accumulated scores of the types of the table, from index i on, in
\* table order
RECURSIVE ScoresFrom(_, _, _)
ScoresFrom(i, c, f) ==
  IF i > Len(document_patterns) THEN <<>>
  ELSE <<type_score(document_patterns[i], c, f)>> \o ScoresFrom(i + 1, c, f)

\* index of the first type, in declaration order, whose score no other type
\* exceeds
FirstMax(scores) ==
  CHOOSE k \in DOMAIN scores :
    /\ \A j \in DOMAIN scores : ~FGreater(scores[j], scores[k])
    /\ \A j \in 1..(k - 1) : FGreater(scores[k], scores[j])

\* C20 as stated: detect_document_type returns the type with the highest
\* accumulated score, and of several types sharing the maximum the one
\* declared first in the detection table.
C20_FirstMaxTypeReturned ==
  IsDetect =>
    \E scores \in {ScoresFrom(1, Lower(call.content), Lower(call.filename))} :
      ret[1] = document_patterns[FirstMax(scores)].doc_type

\* C20 amended: when some type has a score above 0.0, detect_document_type
\* returns the type with the highest accumulated score, and of several types
\* sharing the maximum the one declared first in the detection table; when
\* every type scores 0.0 it returns "Unknown Document".
C20_FirstPositiveMaxTypeReturned ==
  IsDetect =>
    \E scores \in {ScoresFrom(1, Lower(call.content), Lower(call.filename))} :
      \E k \in {FirstMax(scores)} :
        ret[1] = IF FGreater(scores[k], F_0_0)
                 THEN document_patterns[k].doc_type
                 ELSE "Unknown Document"

C20_Witness ==
  /\ IsDetect
  /\ call.filename = "notes.txt"
  /\ call.paragraphs = << "Employment\tAgreement: notice, signature",
                          "UBO Declaration, ownership, UAE Federal Law" >>
  /\ \E scores \in {ScoresFrom(1, Lower(call.content), Lower(call.filename))} :
       /\ scores[3] = F_0_6
       /\ scores[5] = F_0_6
       /\ FirstMax(scores) = 3
  /\ ret[1] = "UBO Declaration"

---------------------------------------------------------------------------
(* Classifier: the confidence *)

\* number of patterns of the list that match s
MatchCount(patterns, s) ==
  Cardinality({ k \in DOMAIN patterns : re_search(patterns[k], s) })

\* acc + x + ... + x (n times), in double arithmetic
RECURSIVE FAddTimes(_, _, _)
FAddTimes(acc, x, n) ==
  IF n = 0 THEN acc ELSE FAddTimes(FAdd(acc, x), x, n - 1)

\* the score of a type from its counts: 0.6 per content match, 0.4 per
\* filename match, 0.2 for the keyword pair
ScoreOf(content_matches, filename_matches, pair) ==
  FAddTimes(FAddTimes(FAddTimes(F_0_0, F_0_6, content_matches),
                      F_0_4, filename_matches),
            F_0_2, IF pair THEN 1 ELSE 0)

\* the score of the returned type, 0.0 when no type is returned; c and f are
\* the lowercased content and filename
WinningScore(doc_type, c, f) ==
  IF doc_type = "Unknown Document" THEN F_0_0
  ELSE
    Bind(CHOOSE k \in DOMAIN document_patterns :
           document_patterns[k].doc_type = doc_type,
         LAMBDA k :
           ScoreOf(MatchCount(document_patterns[k].patterns, c),
                   MatchCount(document_patterns[k].patterns, f),
                   keyword_bonus(doc_type, c)))

\* C21: the confidence returned by detect_document_type lies in [0, 1] and
\* equals min(1.0, s), s being the score of the returned type in double
\* arithmetic: 0.6 for each of its patterns that matches the content, plus
\* 0.4 for each that matches the filename, plus 0.2 if its keyword pair
\* occurs in the content (0.0 when no type is returned).
C21_ConfidenceIsClampedScore ==
  IsDetect =>
    \E c \in {Lower(call.content)}, f \in {Lower(call.filename)} :
      \E s \in {WinningScore(ret[1], c, f)} :
        /\ ret[3] = IF FGreater(s, F_1_0) THEN F_1_0 ELSE s
        /\ ~FGreater(F_0_0, ret[3])
        /\ ~FGreater(ret[3], F_1_0)

\* a score above 1.0 before the cap: 0.6 + 0.4 + 0.2
C21_Witness ==
  /\ IsDetect
  /\ call.filename = "Draft Articles of Association v2.docx"
  /\ call.paragraphs = << "ARTICLES OF ASSOCIATION", "This clause binds the Company" >>
  /\ FGreater(WinningScore(ret[1], Lower(call.content), Lower(call.filename)), F_1_0)
  /\ ret = << "Articles of Association", "Company Incorporation", F_1_0 >>

---------------------------------------------------------------------------
(* Report: the recommendations *)

\* the "<filename>: <issue text>" lines of the High issues of documents 1..n,
\* document order then issue order
RECURSIVE HighLinesUpTo(_, _)
HighLinesUpTo(documents, n) ==
  IF n = 0 THEN <<>>
  ELSE HighLinesUpTo(documents, n - 1)
         \o [ k \in 1..Len(SelectSeq(documents[n].issues, is_high)) |->
                documents[n].filename \o ": "
                  \o SelectSeq(documents[n].issues, is_high)[k].issue ]

FirstThree(xs) == [ k \in 1..(IF Len(xs) < 3 THEN Len(xs) ELSE 3) |-> xs[k] ]

UploadLine(missing) == "Upload missing documents: " \o Join(", ", missing)

HighHeader == "Address high severity issues immediately"

CompleteLine == "Complete document package for better compliance"

AffirmativeLine == "Documents appear compliant. Proceed with submission."

\* the four parts of the recommendations, each empty when its condition fails
RecommendationParts(missing, lines, percentage) ==
  (IF missing # <<>> THEN << UploadLine(missing) >> ELSE <<>>)
    \o (IF lines # <<>> THEN << HighHeader >> \o FirstThree(lines) ELSE <<>>)
    \o (IF percentage < 8000 THEN << CompleteLine >> ELSE <<>>)

\* C22: for every valid process the recommendations are, in this order, the
\* "Upload missing documents" line iff a required document is missing, the
\* header "Address high severity issues immediately" with the first three
\* High issue lines of the whole report (document order, then issue order)
\* iff a High issue exists, the "Complete document package" line iff the
\* completeness is below 80, and the affirmative line alone iff nothing was
\* added; every High issue stays counted in high_severity_issues.
C22_RecommendationsInOrder ==
  (IsFullReport /\ ValidProcess(call.process_name)) =>
    \E lines \in { HighLinesUpTo(call.documents, Len(call.documents)) } :
      \E parts \in { RecommendationParts(ret.checklist_verification.missing_documents,
                                          lines,
                                          ret.checklist_verification.completeness_percentage) } :
        /\ ret.recommendations =
             IF parts = <<>> THEN << AffirmativeLine >> ELSE parts
        /\ ret.high_severity_issues = Len(lines)

\* four High issues in two documents: the fourth, of the second document,
\* is counted but not listed
C22_Witness ==
  /\ IsFullReport
  /\ ValidProcess(call.process_name)
  /\ Len(call.documents) = 2
  /\ call.documents[1].filename = "UBO.docx"
  /\ call.documents[2].filename = "Draft_Articles_of_Association_v2.docx"
  /\ ret.high_severity_issues = 4
  /\ Len(SelectSeq(ret.recommendations,
                   LAMBDA r : r \in Range(HighLinesUpTo(call.documents, 2)))) = 3
  /\ \A r \in Range(ret.recommendations) :
       r \notin Range(HighLinesUpTo(<< call.documents[2] >>, 1))
  /\ ret.recommendations[1] = UploadLine(ret.checklist_verification.missing_documents)
  /\ ret.recommendations[Len(ret.recommendations)] = CompleteLine

\* position of the first element of xs that satisfies test, 0 when none does
FirstIndex(xs, test(_)) ==
  IF \E i \in DOMAIN xs : test(xs[i])
  THEN CHOOSE i \in DOMAIN xs : test(xs[i]) /\ \A j \in 1..(i - 1) : ~test(xs[j])
  ELSE 0

IsUploadLine(r) ==
  /\ Len(r) >= Len("Upload missing documents")
  /\ SubSeq(r, 1, Len("Upload missing documents")) = "Upload missing documents"

\* C24: in every non-error report the affirmative line is present iff no
\* required document is missing and no High issue exists; a "Fully Compliant"
\* report has exactly that one recommendation; a report with only Medium/Low
\* issues and a complete checklist is "Partially Compliant" and carries the
\* affirmative line; and whenever the "Complete document package" line is
\* present, the "Upload missing documents" line is present before it.
C24_AffirmativeLine ==
  IsFullReport =>
    /\ (AffirmativeLine \in Range(ret.recommendations))
          <=> (/\ ret.checklist_verification.missing_documents = <<>>
               /\ ~HasHighIssue(call.documents))
    /\ (ret.compliance_status = "Fully Compliant")
          => (ret.recommendations = << AffirmativeLine >>)
    /\ (/\ count_issues(call.documents) > 0
        /\ ~HasHighIssue(call.documents)
        /\ ret.checklist_verification.status = "complete")
          => (/\ ret.compliance_status = "Partially Compliant"
              /\ AffirmativeLine \in Range(ret.recommendations))
    /\ (CompleteLine \in Range(ret.recommendations))
          => (/\ FirstIndex(ret.recommendations, IsUploadLine) > 0
              /\ FirstIndex(ret.recommendations, IsUploadLine)
                   < FirstIndex(ret.recommendations, LAMBDA r : r = CompleteLine))

\* a complete checklist with one Low issue and no other: "Partially
\* Compliant" with the affirmative line as the only recommendation
C24_Witness ==
  /\ IsFullReport
  /\ ret.checklist_verification.status = "complete"
  /\ ret.total_issues_found = 1
  /\ ret.high_severity_issues = 0
  /\ \E i \in DOMAIN call.documents :
       \E k \in DOMAIN call.documents[i].issues :
         call.documents[i].issues[k].severity = "Low"
  /\ ret.compliance_status = "Partially Compliant"
  /\ ret.recommendations = << AffirmativeLine >>

---------------------------------------------------------------------------
(* process_documents *)

IsProcess == call.op = "process_documents"

Returned == IsProcess /\ frame.pc = "returned"

\* both guards of process_documents are passed
GuardsPassed == IsProcess /\ call.files # <<>> /\ call.process_type # ""

\* the call has returned the JSON text of a report
HasReport == Returned /\ "json" \in DOMAIN ret[1]

\* the report returned is not an error report
HasFullReport == HasReport /\ "compliance_status" \in DOMAIN ret[1].json

\* the analysis of each uploaded file that parses, computed from its own
\* name and content alone
OwnAnalyses ==
  { << u.name, document_analysis(DocumentProcessor, PathName(u.name), u.content) >> :
      u \in { v \in UploadedFiles : v.parse_error = None } }

OwnAnalysis(file) == (CHOOSE pair \in OwnAnalyses : pair[1] = file.name)[2]

\* the fields of a report that C23 names
Summary(report) ==
  << report.documents_analyzed, report.total_issues_found,
     report.high_severity_issues, report.compliance_status,
     report.checklist_verification >>

\* the report of the same files evaluated in the order p
ReportInOrder(files, p, process_type) ==
  generate_comprehensive_report(
    [ i \in DOMAIN files |-> OwnAnalysis(files[p[i]]) ], process_type)

ParseCalls == SelectSeq(frame.trace, LAMBDA e : e.fn = "parse_docx")

InsertCalls == SelectSeq(frame.trace, LAMBDA e : e.fn = "insert_comments")

ReportCalls ==
  SelectSeq(frame.trace, LAMBDA e : e.fn = "generate_comprehensive_report")

\* C23: the analysis recorded for each document is the one its own content
\* and filename give, whatever the other documents of the batch and their
\* order; generate_comprehensive_report is called only after every document
\* has been analysed, as the last call, on all the analyses; and for every
\* order of the same documents the report has the same documents_analyzed,
\* total_issues_found, high_severity_issues, compliance_status and
\* checklist_verification.
C23_AnalysesIndependentOfOrder ==
  IsProcess =>
    /\ \A k \in DOMAIN frame.documents_analysis :
         frame.documents_analysis[k] = OwnAnalysis(call.files[k])
    /\ ReportCalls # <<>> =>
         /\ Len(ReportCalls) = 1
         /\ frame.trace[Len(frame.trace)].fn = "generate_comprehensive_report"
         /\ Len(frame.documents_analysis) = Len(call.files)
         /\ [ k \in DOMAIN ParseCalls |-> ParseCalls[k].path ]
              = [ k \in DOMAIN call.files |-> call.files[k].name ]
    /\ HasReport => ReportCalls # <<>>
    /\ HasFullReport =>
         /\ ret[1].json.document_details = frame.documents_analysis
         /\ ret[1].json.documents_analyzed = Len(call.files)
         /\ \A p \in Permutations(DOMAIN call.files) :
              Summary(ReportInOrder(call.files, p, call.process_type))
                = Summary(ret[1].json)

\* two different documents: the other order gives another report (other
\* document_details and recommendations) with the same summary
C23_Witness ==
  /\ HasFullReport
  /\ Len(call.files) = 2
  /\ call.files[1].name = "/tmp/g5/UBO.docx"
  /\ call.files[2].name = "/tmp/g4/Draft_Articles_of_Association_v2.docx"
  /\ ret[1].json.documents_analyzed = 2
  /\ ret[1].json.high_severity_issues = 4
  /\ ReportInOrder(call.files, << 2, 1 >>, call.process_type).recommendations
       # ret[1].json.recommendations
  /\ ReportInOrder(call.files, << 2, 1 >>, call.process_type).document_details
       # ret[1].json.document_details

\* position of the first file that does not parse, 0 when all parse
FirstUnparsed(files) ==
  IF \E k \in DOMAIN files : files[k].parse_error # None
  THEN CHOOSE k \in DOMAIN files :
         /\ files[k].parse_error # None
         /\ \A j \in 1..(k - 1) : files[j].parse_error = None
  ELSE 0

\* the reviewed paths of the first n files: one for each file that has an
\* issue and whose reviewed copy is saved
RECURSIVE ReviewedUpTo(_, _, _)
ReviewedUpTo(files, analyses, n) ==
  IF n = 0 THEN <<>>
  ELSE ReviewedUpTo(files, analyses, n - 1)
         \o (IF analyses[n].issues # <<>> /\ files[n].save_error = None
             THEN << with_suffix(files[n].name, ".reviewed.docx") >>
             ELSE <<>>)

\* the paths of those of the first n files that have an issue
RECURSIVE WithIssuesUpTo(_, _, _)
WithIssuesUpTo(files, analyses, n) ==
  IF n = 0 THEN <<>>
  ELSE WithIssuesUpTo(files, analyses, n - 1)
         \o (IF analyses[n].issues # <<>> THEN << files[n].name >> ELSE <<>>)

\* the first element is a str, literal or JSON text, the others are strs
IsTripleOfStrings(result) ==
  /\ Len(result) = 3
  /\ DOMAIN result[1] \in { {"text"}, {"json"} }
  /\ result[2] \in STRING
  /\ result[3] \in STRING

\* C25: process_documents returns a triple of strings in every case and
\* raises nothing.  Without files, or without a process type, it returns the
\* guard triple and calls neither parse_docx nor any analysis.  Otherwise,
\* if every file parses, every document is analysed and the report is
\* generated and returned; insert_comments is called exactly for the
\* documents that have an issue, and the reviewed paths are those of the
\* documents among them whose copy is saved, a failure being swallowed.  If
\* a file does not parse, nothing after it is parsed, no report is generated
\* and the error triple with the message of the exception is returned.
C25_AlwaysATriple ==
  IsProcess =>
    /\ frame.pc \in { "loop", "returned" }
    /\ Returned => IsTripleOfStrings(ret)
    /\ (Returned /\ call.files = <<>>) =>
         /\ ret = << [ text |-> "No files uploaded" ], "No files to process",
                     "Please upload documents for analysis" >>
         /\ frame.trace = <<>> /\ frame.documents_analysis = <<>>
    /\ (Returned /\ call.files # <<>> /\ call.process_type = "") =>
         /\ ret = << [ text |-> "No process type selected" ], "No process specified",
                     "Please select a business process" >>
         /\ frame.trace = <<>> /\ frame.documents_analysis = <<>>
    /\ (Returned /\ GuardsPassed /\ FirstUnparsed(call.files) = 0) =>
         /\ HasReport
         /\ ReportCalls # <<>>
         /\ Len(frame.documents_analysis) = Len(call.files)
         /\ [ k \in DOMAIN InsertCalls |-> InsertCalls[k].path ]
              = WithIssuesUpTo(call.files, frame.documents_analysis, Len(call.files))
         /\ \E reviewed \in { ReviewedUpTo(call.files, frame.documents_analysis,
                                           Len(call.files)) } :
              ret[2] = IF reviewed = <<>> THEN "No reviewed documents generated"
                       ELSE Join("\n", reviewed)
    /\ (Returned /\ GuardsPassed /\ FirstUnparsed(call.files) > 0) =>
         \E k \in { FirstUnparsed(call.files) } :
           /\ ret = << [ text |-> "Error: " \o call.files[k].parse_error ],
                       "Processing failed",
                       "[x] Error occurred: " \o call.files[k].parse_error >>
           /\ ReportCalls = <<>>
           /\ Len(ParseCalls) = k
           /\ Len(frame.documents_analysis) = k - 1

\* a document with issues whose reviewed copy cannot be saved, followed by
\* one with issues whose copy is saved: the report covers both and only
\* the second reviewed path is returned
C25_Witness ==
  /\ HasFullReport
  /\ Len(call.files) = 2
  /\ call.files[1].name = "/tmp/g5/UBO.docx"
  /\ call.files[1].save_error # None
  /\ call.files[2].name = "/tmp/g4/Draft_Articles_of_Association_v2.docx"
  /\ Len(InsertCalls) = 2
  /\ ret[1].json.documents_analyzed = 2
  /\ ret[2] = "/tmp/g4/Draft_Articles_of_Association_v2.reviewed.docx"

====
